---- MODULE Spec2Model ----
(***************************************************************************)
(* A model of zcking/go-api-template: the users service (CreateUser and    *)
(* ListUsers over database/sql), the users table with its id sequence, and *)
(* the process lifecycle of cmd/server/main.go (startup, the signal        *)
(* handler goroutine, the deferred telemetry shutdown).                    *)
(***************************************************************************)
EXTENDS Integers, Sequences, FiniteSets, TLC

VARIABLES
    \* the database
    schema,     \* the migration version the database is at
    table,      \* the users table: rows in heap (insertion) order
    seq,        \* seq_users_id: the value the next nextval() returns
    \* the callers
    calls,      \* the calls the callers have made, by arrival number
    ncalls,     \* how many calls have arrived
    budget,     \* how many more calls the callers will make
    faults,     \* the ways the store connection may fail in this run
    \* the process of cmd/server/main.go
    mainPc,     \* where the main goroutine is
    servePc,    \* where the goroutine of grpcServer.Serve is
    sigPc,      \* where the signal handler goroutine is
    notified,   \* signal.Notify has registered signalChan
    signalled,  \* the operating system has sent the termination signal
    atSignal,   \* the calls that were in flight when the signal was sent
    grpc,       \* grpcServer: "new", "serving", "stopping", "stopped"
    http,       \* gwServer: "new", "listening", "closed"
    httpShut,   \* gwServer.Shutdown has been called
    drainErr,   \* gwServer.Shutdown returned the error of its expired context
    db,         \* impl.db: "none", "open", "closed"
    tp,         \* the tracer provider: "none", "nil", "live", "shutdown"
    mp,         \* the meter provider: "none", "nil", "live", "shutdown"
    tpShutdowns, \* calls of tp.Shutdown
    mpShutdowns, \* calls of mp.Shutdown
    exited,     \* the process has exited
    status,     \* its exit status
    \* the logger
    logged      \* the calls of TraceContextHandler.Handle: context, record
                \* given and records passed to the wrapped handler

storeVars == <<schema, table, seq>>
callerVars == <<ncalls, budget, faults>>
goVars == <<mainPc, servePc, sigPc>>
signalVars == <<notified, signalled, atSignal>>
serverVars == <<grpc, http, httpShut, drainErr>>
otelVars == <<tp, mp, tpShutdowns, mpShutdowns>>
exitVars == <<exited, status>>
procVars == <<goVars, signalVars, serverVars, db, otelVars, exitVars>>

logVars == <<logged>>

vars == <<storeVars, calls, callerVars, logVars, procVars>>

----------------------------------------------------------------------------
(* Bounds of the model *)

\* Calls the callers make against a serving service
MaxCalls == 3

\* Calls the callers make during one run of the process
MaxMainCalls == 1

\* Calls the callers make and may abandon
MaxCancelCalls == 2

\* Records the logger is given
MaxLogs == 2

\* Rows the users table holds at most
MaxRows == 2

\* Request fields (free text)
Emails == {"a@x", "b@x"}
\* The emails of the callers of a process that starts up and shuts down
MainEmails == {"a@x"}
Names == {"Ann"}

\* Text a driver may deliver in the id column of a row in place of an integer
CorruptTexts == {<<"1", "x">>, <<"7">>}

CallIds == 1..MaxCalls

----------------------------------------------------------------------------
(* Values *)

NoError == "nil"
\* The error the store returns when the connection fails
ConnError == "database connection failed"
\* The error of database/sql's Scan when a column cannot be converted
ScanError == "sql: Scan error on column index 0"

\* The error of the store for an INSERT the primary key rejects
KeyError == "pq: duplicate key value violates unique constraint"
\* The error of database/sql for a statement on a closed handle
ClosedError == "sql: database is closed"
\* ctx.Err() of a request context that was cancelled
CtxCanceled == "context canceled"
\* The status error of the gRPC client when the server takes no new call
Unavailable == "rpc error: code = Unavailable"

NilResponse == [isNil |-> TRUE, users |-> <<>>]

IntId(n) == [kind |-> "int", num |-> n, txt |-> <<>>]
TextId(t) == [kind |-> "text", num |-> 0, txt |-> t]

DigitChars == {"0", "1", "2", "3", "4", "5", "6", "7", "8", "9"}

DigitVal(ch) ==
    CASE ch = "0" -> 0 [] ch = "1" -> 1 [] ch = "2" -> 2 [] ch = "3" -> 3
      [] ch = "4" -> 4 [] ch = "5" -> 5 [] ch = "6" -> 6 [] ch = "7" -> 7
      [] ch = "8" -> 8 [] ch = "9" -> 9

RECURSIVE ParseDigits(_, _)
ParseDigits(s, acc) ==
    IF s = <<>> THEN acc
    ELSE ParseDigits(Tail(s), acc * 10 + DigitVal(Head(s)))

\* strconv.ParseInt(s, 10, 64), as Scan uses it for a text value and an
\* int64 destination: empty or non-digit text is an error
ParseInt(s) ==
    IF s # <<>> /\ \A i \in 1..Len(s) : s[i] \in DigitChars
    THEN [ok |-> TRUE, val |-> ParseDigits(s, 0)]
    ELSE [ok |-> FALSE, val |-> 0]

\* rows.Scan(&user.Id, ...): the id column converted to int64
ScanId(raw) ==
    IF raw.kind = "int" THEN [ok |-> TRUE, val |-> raw.num]
    ELSE ParseInt(raw.txt)

----------------------------------------------------------------------------
(* The users table *)

Ids(t) == {t[i].id : i \in 1..Len(t)}

\* Mutant: an id column with a fixed default and no key
InsertRowFixedId(t, s, email, name) ==
    [table |-> Append(t, [id |-> 1, email |-> email, name |-> name]),
     seq |-> s, err |-> NoError, id |-> 1]

\* Mutant: a unique constraint on the email column
InsertRowUniqueEmail(t, s, email, name) ==
    IF s \in Ids(t) \/ \E i \in 1..Len(t) : t[i].email = email
    THEN [table |-> t, seq |-> s + 1, err |-> KeyError, id |-> s]
    ELSE [table |-> Append(t, [id |-> s, email |-> email, name |-> name]),
          seq |-> s + 1, err |-> NoError, id |-> s]

\* Mutant: a sequence that counts down (INCREMENT -1)
InsertRowDescending(t, s, email, name) ==
    IF s \in Ids(t)
    THEN [table |-> t, seq |-> s - 1, err |-> KeyError, id |-> s]
    ELSE [table |-> Append(t, [id |-> s, email |-> email, name |-> name]),
          seq |-> s - 1, err |-> NoError, id |-> s]

\* Mutant: an insert that writes over the row stored last (a lost insert)
InsertRowOverwrites(t, s, email, name) ==
    [table |-> IF t = <<>> THEN <<[id |-> s, email |-> email, name |-> name]>>
               ELSE [t EXCEPT ![Len(t)] = [id |-> s, email |-> email, name |-> name]],
     seq |-> s + 1, err |-> NoError, id |-> s]

\* INSERT INTO users (email, name) VALUES ($1, $2) RETURNING id: the id
\* column takes its default, nextval('seq_users_id'), which advances the
\* sequence whether or not the row is accepted; the primary key rejects a
\* taken id; no other column is unique
InsertRow(t, s, email, name) ==
    IF s \in Ids(t)
    THEN [table |-> t, seq |-> s + 1, err |-> KeyError, id |-> s]
    ELSE [table |-> Append(t, [id |-> s, email |-> email, name |-> name]),
          seq |-> s + 1, err |-> NoError, id |-> s]

\* The result set of SELECT * FROM users as the driver delivers it: the rows
\* in the order of the permutation p, the id of row k (if any) as the text t
Delivered(t, p, k, txt) ==
    [i \in 1..Len(t) |->
        [id |-> IF i = k THEN TextId(txt) ELSE IntId(t[p[i]].id),
         email |-> t[p[i]].email,
         name |-> t[p[i]].name]]

\* The orders in which the store delivers n rows. No ORDER BY is asked for,
\* so the order is the store's own: here heap order or its reverse
Orders(n) == {[i \in 1..n |-> i], [i \in 1..n |-> n + 1 - i]}

----------------------------------------------------------------------------
(* The service *)

RECURSIVE ScanRowsSkipBad(_, _)
\* Mutant: a row that does not scan is skipped (continue) and the rest returned
ScanRowsSkipBad(rows, users) ==
    IF rows = <<>> THEN [resp |-> [isNil |-> FALSE, users |-> users], err |-> NoError]
    ELSE LET id == ScanId(Head(rows).id) IN
         IF ~id.ok THEN ScanRowsSkipBad(Tail(rows), users)
         ELSE ScanRowsSkipBad(Tail(rows),
                              Append(users, [id |-> id.val,
                                             email |-> Head(rows).email,
                                             name |-> Head(rows).name]))

\* Mutant: one user variable declared outside the loop, so that every entry
\* of the list points at the row scanned last
ScanRowsAliased(rows, users) ==
    IF \E i \in 1..Len(rows) : ~ScanId(rows[i].id).ok
    THEN [resp |-> NilResponse, err |-> ScanError]
    ELSE [resp |-> [isNil |-> FALSE,
                    users |-> [i \in 1..Len(rows) |->
                                 [id |-> ScanId(rows[Len(rows)].id).val,
                                  email |-> rows[Len(rows)].email,
                                  name |-> rows[Len(rows)].name]]],
          err |-> NoError]

RECURSIVE ScanRows(_, _)
\* The loop of ListUsers: each row scanned into a user and appended; a row
\* that does not scan ends the call with the error and a nil response
ScanRows(rows, users) ==
    IF rows = <<>> THEN [resp |-> [isNil |-> FALSE, users |-> users], err |-> NoError]
    ELSE LET id == ScanId(Head(rows).id) IN
         IF ~id.ok THEN [resp |-> NilResponse, err |-> ScanError]
         ELSE ScanRows(Tail(rows),
                       Append(users, [id |-> id.val,
                                      email |-> Head(rows).email,
                                      name |-> Head(rows).name]))

\* Mutant: an empty result is reported as sql.ErrNoRows
ListUsersErrOnEmpty(qerr, rows) ==
    IF qerr # NoError THEN [resp |-> NilResponse, err |-> qerr]
    ELSE IF rows = <<>> THEN [resp |-> NilResponse, err |-> "sql: no rows in result set"]
    ELSE ScanRows(rows, <<>>)

\* Mutant: the error of the query is wrapped with the name of the operation
ListUsersWrapped(qerr, rows) ==
    IF qerr # NoError THEN [resp |-> NilResponse, err |-> "failed to list users"]
    ELSE ScanRows(rows, <<>>)

\* ListUsers given what the store did: qerr is the error of QueryContext
\* (NoError if none), rows are the rows for which rows.Next() returned true
ListUsers(qerr, rows) ==
    IF qerr # NoError THEN [resp |-> NilResponse, err |-> qerr]
    ELSE ScanRows(rows, <<>>)

\* Mutant: the response built with email and name exchanged
CreateUserSwapped(email, name, qerr, serr, raw) ==
    IF qerr # NoError THEN [resp |-> NilResponse, err |-> qerr]
    ELSE IF serr # NoError THEN [resp |-> NilResponse, err |-> serr]
    ELSE LET id == ScanId(raw) IN
         IF ~id.ok THEN [resp |-> NilResponse, err |-> ScanError]
         ELSE [resp |-> [isNil |-> FALSE,
                         users |-> <<[id |-> id.val, email |-> name, name |-> email]>>],
               err |-> NoError]

\* Mutant: row.Err() is not looked at and the row is scanned whatever it is
CreateUserNoRowErr(email, name, qerr, serr, raw) ==
    IF serr # NoError THEN [resp |-> NilResponse, err |-> serr]
    ELSE LET id == ScanId(raw) IN
         IF ~id.ok THEN [resp |-> NilResponse, err |-> ScanError]
         ELSE [resp |-> [isNil |-> FALSE,
                         users |-> <<[id |-> id.val, email |-> email, name |-> name]>>],
               err |-> NoError]

\* CreateUser given what the store did: qerr is row.Err(), serr the error of
\* reading the returned row, raw the id column of the returned row
CreateUser(email, name, qerr, serr, raw) ==
    IF qerr # NoError THEN [resp |-> NilResponse, err |-> qerr]
    ELSE IF serr # NoError THEN [resp |-> NilResponse, err |-> serr]
    ELSE LET id == ScanId(raw) IN
         IF ~id.ok THEN [resp |-> NilResponse, err |-> ScanError]
         ELSE [resp |-> [isNil |-> FALSE,
                         users |-> <<[id |-> id.val, email |-> email, name |-> name]>>],
               err |-> NoError]


----------------------------------------------------------------------------
(* Calls *)

IdleCall ==
    [pc |-> "idle", via |-> "none", op |-> "none", email |-> "", name |-> "",
     phase |-> "none", rpcPhase |-> "none",
     prev |-> {}, stmts |-> 0, fault |-> "none", storeErr |-> NoError,
     cancelled |-> FALSE,
     before |-> <<>>, after |-> <<>>, rows |-> <<>>,
     resp |-> NilResponse, err |-> NoError]

\* The handler of call c has returned
Returned(c) == calls[c].pc \in {"returned", "gateway", "delivered"}

\* Call c is an RPC the gRPC server has accepted and not yet answered
RpcInFlight(c) == calls[c].pc \in {"issued", "returned"}

\* Call c is a request the HTTP server has accepted and not yet answered
HttpInFlight(c) ==
    calls[c].via = "http" /\ calls[c].pc \in {"http", "issued", "returned", "gateway"}

InFlight(c) == RpcInFlight(c) \/ HttpInFlight(c)

\* grpcServer takes new calls between Serve and GracefulStop
GrpcAccepting == ~exited /\ grpc = "serving"

\* gwServer takes new requests between ListenAndServe and Shutdown
HttpAccepting == ~exited /\ http = "listening"

\* The gRPC server starts the handler of an accepted call, which sends its
\* one statement to the store (QueryRowContext, QueryContext)
StartHandler(call) ==
    IF db = "open"
    THEN [call EXCEPT !.pc = "issued", !.stmts = call.stmts + 1,
                      !.rpcPhase = sigPc,
                      !.prev = {d \in 1..ncalls : Returned(d)}]
    ELSE [call EXCEPT !.pc = "returned", !.err = ClosedError,
                      !.rpcPhase = sigPc,
                      !.prev = {d \in 1..ncalls : Returned(d)}]

\* A caller makes a call on the RPC port (via = "rpc") or on the HTTP
\* gateway port (via = "http"); a port that takes no new call refuses the
\* connection, so that the request is never read
Arrive(via, op, email, name) ==
    LET call == [IdleCall EXCEPT !.via = via, !.op = op, !.email = email,
                                 !.name = name, !.phase = sigPc]
        accepting == IF via = "rpc" THEN GrpcAccepting ELSE HttpAccepting
    IN /\ budget > 0
       /\ ncalls < MaxCalls
       /\ accepting \/ signalled
       /\ ncalls' = ncalls + 1
       /\ budget' = budget - 1
       /\ calls' = [calls EXCEPT ![ncalls + 1] =
                       IF ~accepting
                       THEN [IdleCall EXCEPT !.pc = "rejected", !.via = via,
                                             !.phase = sigPc]
                       ELSE IF via = "rpc" THEN StartHandler(call)
                       ELSE [call EXCEPT !.pc = "http"]]
       /\ UNCHANGED <<storeVars, faults, logVars, procVars>>

\* Room for one more row within the bound of the table
RoomForRow ==
    Len(table) + Cardinality({c \in CallIds : calls[c].op = "CreateUser"
                                              /\ calls[c].pc \in {"http", "issued"}})
        < MaxRows

ArriveCreateUserWith(via, emails) ==
    /\ RoomForRow
    /\ \E e \in emails, n \in Names : Arrive(via, "CreateUser", e, n)

ArriveCreateUser(via) == ArriveCreateUserWith(via, Emails)

ArriveListUsers(via) == Arrive(via, "ListUsers", "", "")

\* The gateway forwards an accepted HTTP request as an RPC over its loopback
\* client connection; a gRPC server that takes no new call answers Unavailable
GatewayCall(c) ==
    /\ ~exited
    /\ calls[c].pc = "http"
    /\ calls' = [calls EXCEPT ![c] =
                    IF GrpcAccepting THEN StartHandler(calls[c])
                    ELSE [calls[c] EXCEPT !.pc = "gateway", !.err = Unavailable]]
    /\ UNCHANGED <<storeVars, callerVars, logVars, procVars>>

\* The request context ctx is handed to QueryRowContext and QueryContext, so
\* that its cancellation reaches the statement of a call that was abandoned
CancelFaults(c) == IF calls[c].cancelled THEN {"cancel", "cancelLate"} ELSE {}

\* The caller of call c disconnects while the statement of c is under way:
\* the gRPC server cancels the context of the request
Disconnect(c) ==
    /\ ~exited
    /\ calls[c].pc = "issued"
    /\ ~calls[c].cancelled
    /\ calls' = [calls EXCEPT ![c].cancelled = TRUE]
    /\ UNCHANGED <<storeVars, callerVars, logVars, procVars>>

\* Mutant: CreateUser sends its statement again when the connection failed
CompleteCreateUserRetries(c) ==
    /\ ~exited
    /\ calls[c].pc = "issued"
    /\ calls[c].op = "CreateUser"
    /\ \E fault \in {"none"} \cup (faults \cap {"query", "stream"})
                            \cup CancelFaults(c) :
        LET ins == IF fault = "query"
                   THEN [table |-> table, seq |-> seq, err |-> ConnError, id |-> 0]
                   ELSE IF fault = "cancel"
                   THEN [table |-> table, seq |-> seq, err |-> CtxCanceled, id |-> 0]
                   ELSE InsertRow(table, seq, calls[c].email, calls[c].name)
            serr == IF fault = "stream" THEN ConnError
                    ELSE IF fault = "cancelLate" THEN CtxCanceled ELSE NoError
            r == CreateUser(calls[c].email, calls[c].name, ins.err, serr,
                            IntId(ins.id))
        IN /\ table' = ins.table
           /\ seq' = ins.seq
           /\ calls' = [calls EXCEPT ![c].pc = "returned", ![c].fault = fault,
                                     ![c].stmts = IF fault = "query" THEN 2 ELSE 1,
                                     ![c].storeErr =
                                        IF ins.err # NoError THEN ins.err ELSE serr,
                                     ![c].before = table, ![c].after = ins.table,
                                     ![c].resp = r.resp, ![c].err = r.err]
    /\ UNCHANGED <<schema, callerVars, logVars, procVars>>

\* The INSERT runs and CreateUser returns. fault: "none"; "query" (the
\* connection fails before the statement runs); "stream" (the connection
\* fails after the statement ran, while the returned row is read); "cancel"
\* (the store cancels the statement before it has effect); "cancelLate" (the
\* row is stored and reading the returned row ends with ctx.Err())
CompleteCreateUser(c) ==
    /\ ~exited
    /\ calls[c].pc = "issued"
    /\ calls[c].op = "CreateUser"
    /\ \E fault \in {"none"} \cup (faults \cap {"query", "stream"})
                            \cup CancelFaults(c) :
        LET ins == IF fault = "query"
                   THEN [table |-> table, seq |-> seq, err |-> ConnError, id |-> 0]
                   ELSE IF fault = "cancel"
                   THEN [table |-> table, seq |-> seq, err |-> CtxCanceled, id |-> 0]
                   ELSE InsertRow(table, seq, calls[c].email, calls[c].name)
            serr == IF fault = "stream" THEN ConnError
                    ELSE IF fault = "cancelLate" THEN CtxCanceled ELSE NoError
            r == CreateUser(calls[c].email, calls[c].name, ins.err, serr,
                            IntId(ins.id))
        IN /\ table' = ins.table
           /\ seq' = ins.seq
           /\ calls' = [calls EXCEPT ![c].pc = "returned", ![c].fault = fault,
                                     ![c].storeErr =
                                        IF ins.err # NoError THEN ins.err ELSE serr,
                                     ![c].before = table, ![c].after = ins.table,
                                     ![c].resp = r.resp, ![c].err = r.err]
    /\ UNCHANGED <<schema, callerVars, logVars, procVars>>

\* The SELECT runs and ListUsers returns. The store delivers the rows in an
\* order of its own; fault "stream" is the connection failing after n rows
\* were read, which ends rows.Next() early; with "corrupt" among the faults
\* the id of a row k may arrive as text; "cancel" is QueryContext returning
\* ctx.Err(); "cancelLate" is the cancelled context closing the rows after n
\* of them were read
CompleteListUsers(c) ==
    /\ ~exited
    /\ calls[c].pc = "issued"
    /\ calls[c].op = "ListUsers"
    /\ \E fault \in {"none"} \cup (faults \cap {"query", "stream"})
                            \cup CancelFaults(c),
          p \in Orders(Len(table)),
          k \in 0..Len(table), txt \in CorruptTexts, n \in 0..Len(table) :
        /\ k # 0 => "corrupt" \in faults
        /\ fault \in {"stream", "cancelLate"} => n < Len(table)
        /\ fault \notin {"stream", "cancelLate"} => n = Len(table)
        /\ LET all == Delivered(table, p, k, txt)
               rows == IF fault \in {"query", "cancel"} THEN <<>> ELSE SubSeq(all, 1, n)
               qerr == IF fault = "query" THEN ConnError
                       ELSE IF fault = "cancel" THEN CtxCanceled ELSE NoError
               r == ListUsers(qerr, rows)
           IN calls' = [calls EXCEPT ![c].pc = "returned", ![c].fault = fault,
                                     ![c].storeErr =
                                        IF qerr # NoError THEN qerr
                                        ELSE IF \E i \in 1..Len(rows) :
                                                    ~ScanId(rows[i].id).ok
                                             THEN ScanError ELSE NoError,
                                     ![c].before = table, ![c].after = table,
                                     ![c].rows = rows,
                                     ![c].resp = r.resp, ![c].err = r.err]
    /\ UNCHANGED <<storeVars, callerVars, logVars, procVars>>

\* The answer of the gRPC server reaches its client: the caller of an RPC, or
\* the gateway for an HTTP request
Deliver(c) ==
    /\ ~exited
    /\ calls[c].pc = "returned"
    /\ calls' = [calls EXCEPT ![c].pc =
                    IF calls[c].via = "http" THEN "gateway" ELSE "delivered"]
    /\ UNCHANGED <<storeVars, callerVars, logVars, procVars>>

\* The gateway writes the HTTP response to the caller
GatewayDeliver(c) ==
    /\ ~exited
    /\ calls[c].pc = "gateway"
    /\ calls' = [calls EXCEPT ![c].pc = "delivered"]
    /\ UNCHANGED <<storeVars, callerVars, logVars, procVars>>

----------------------------------------------------------------------------
(* The process: cmd/server/main.go *)

\* The newest migration version under migrations/
LatestVersion == 1

\* The process exits with the status code: every goroutine stops where it is
\* and a call still in flight is cut off without an answer
Exit(code) ==
    /\ exited' = TRUE
    /\ status' = code
    /\ calls' = [c \in CallIds |->
                    IF InFlight(c) THEN [calls[c] EXCEPT !.pc = "aborted"]
                    ELSE calls[c]]

Running == UNCHANGED <<exitVars, calls>>

\* tp, err := internal.InitOTel(ctx, otelConfig): an error exits with 1, a
\* nil provider (no exporter) defers nothing, a provider defers its shutdown
MainInitOTel ==
    /\ ~exited /\ mainPc = "initOTel"
    /\ \E r \in {"err", "nil", "live"} :
        IF r = "err" THEN Exit(1) /\ UNCHANGED <<mainPc, tp>>
        ELSE Running /\ tp' = r /\ mainPc' = "initMetrics"
    /\ UNCHANGED <<storeVars, callerVars, logVars, servePc, sigPc, signalVars, serverVars,
                   db, mp, tpShutdowns, mpShutdowns>>

\* mp, err := internal.InitOTelMetrics(ctx, otelConfig)
MainInitOTelMetrics ==
    /\ ~exited /\ mainPc = "initMetrics"
    /\ \E r \in {"err", "nil", "live"} :
        IF r = "err" THEN Exit(1) /\ UNCHANGED <<mainPc, mp>>
        ELSE Running /\ mp' = r /\ mainPc' = "migrate"
    /\ UNCHANGED <<storeVars, callerVars, logVars, servePc, sigPc, signalVars, serverVars,
                   db, tp, tpShutdowns, mpShutdowns>>

\* migrate.ErrNoChange: the error of m.Up() when no migration is pending
ErrNoChange == "no change"

\* m.Up(): applies the pending migrations in order up to the newest; with
\* none pending it changes nothing and returns ErrNoChange
Up(version) ==
    IF version = LatestVersion THEN [version |-> version, err |-> ErrNoChange]
    ELSE [version |-> LatestVersion, err |-> NoError]

\* Mutant: every error of m.Up() is returned, ErrNoChange included
runMigrationsNoChangeIsError(version, reachable) ==
    IF ~reachable
    THEN [version |-> version, err |-> "failed to create migration instance"]
    ELSE LET up == Up(version) IN
         IF up.err # NoError
         THEN [version |-> up.version, err |-> "failed to run migrations"]
         ELSE [version |-> up.version, err |-> NoError]

\* runMigrations(config): migrate.New fails when the database cannot be
\* reached; an error of m.Up() other than ErrNoChange is returned wrapped
runMigrations(version, reachable) ==
    IF ~reachable
    THEN [version |-> version, err |-> "failed to create migration instance"]
    ELSE LET up == Up(version) IN
         IF up.err # NoError /\ up.err # ErrNoChange
         THEN [version |-> up.version, err |-> "failed to run migrations"]
         ELSE [version |-> up.version, err |-> NoError]

\* Mutant: a failure of the migrations is logged and startup goes on
MainRunMigrationsLogged ==
    /\ ~exited /\ mainPc = "migrate"
    /\ LET m == runMigrations(schema, "migrate" \notin faults) IN
        /\ schema' = m.version
        /\ mainPc' = "listen"
        /\ UNCHANGED <<exitVars, calls>>
    /\ UNCHANGED <<table, seq, callerVars, logVars, servePc, sigPc, signalVars, serverVars,
                   db, otelVars>>

\* if err := runMigrations(dbConfig); err != nil { os.Exit(1) }. The database
\* cannot be reached in a run whose faults include "migrate"
MainRunMigrations ==
    /\ ~exited /\ mainPc = "migrate"
    /\ LET m == runMigrations(schema, "migrate" \notin faults) IN
        /\ schema' = m.version
        /\ IF m.err # NoError THEN Exit(1) /\ mainPc' = "migrateFailed"
           ELSE Running /\ mainPc' = "listen"
    /\ UNCHANGED <<table, seq, callerVars, logVars, servePc, sigPc, signalVars, serverVars,
                   db, otelVars>>

\* lis, err := net.Listen("tcp", ":8080")
MainListen ==
    /\ ~exited /\ mainPc = "listen"
    /\ \E ok \in BOOLEAN :
        IF ok THEN Running /\ mainPc' = "newService"
        ELSE Exit(1) /\ mainPc' = "listenFailed"
    /\ UNCHANGED <<storeVars, callerVars, logVars, servePc, sigPc, signalVars, serverVars,
                   db, otelVars>>

\* impl, err := users.NewService(dbConfig, logger), then the goroutine of
\* grpcServer.Serve(lis) is started
MainNewService ==
    /\ ~exited /\ mainPc = "newService"
    /\ \E ok \in BOOLEAN :
        IF ok THEN Running /\ db' = "open" /\ servePc' = "spawned"
                   /\ mainPc' = "gateway"
        ELSE Exit(1) /\ UNCHANGED <<mainPc, db, servePc>>
    /\ UNCHANGED <<storeVars, callerVars, logVars, sigPc, signalVars, serverVars, otelVars>>

\* grpc.NewClient and RegisterUserServiceHandler
MainGateway ==
    /\ ~exited /\ mainPc = "gateway"
    /\ \E ok \in BOOLEAN :
        IF ok THEN Running /\ mainPc' = "notify"
        ELSE Exit(1) /\ UNCHANGED mainPc
    /\ UNCHANGED <<storeVars, callerVars, logVars, servePc, sigPc, signalVars, serverVars,
                   db, otelVars>>

\* signal.Notify(signalChan, SIGINT, SIGTERM), then the signal handler
\* goroutine is started
MainNotify ==
    /\ ~exited /\ mainPc = "notify"
    /\ notified' = TRUE
    /\ sigPc' = "waiting"
    /\ mainPc' = "listenAndServe"
    /\ Running
    /\ UNCHANGED <<storeVars, callerVars, logVars, servePc, signalled, atSignal, serverVars,
                   db, otelVars>>

\* Mutant: a bind failure of the gateway is logged and main waits on
MainListenAndServeLogged ==
    /\ ~exited /\ mainPc = "listenAndServe"
    /\ IF httpShut THEN mainPc' = "deferMetrics" /\ UNCHANGED http
       ELSE \E ok \in BOOLEAN :
            IF ok THEN http' = "listening" /\ mainPc' = "httpServing"
            ELSE mainPc' = "httpFailed" /\ UNCHANGED http
    /\ UNCHANGED <<exitVars, calls>>
    /\ UNCHANGED <<storeVars, callerVars, logVars, servePc, sigPc, signalVars, grpc,
                   httpShut, drainErr, db, otelVars>>

\* gwServer.ListenAndServe() is called: after Shutdown it returns
\* http.ErrServerClosed at once; else it binds :8081 and serves, or fails
MainListenAndServe ==
    /\ ~exited /\ mainPc = "listenAndServe"
    /\ IF httpShut THEN Running /\ mainPc' = "deferMetrics" /\ UNCHANGED http
       ELSE \E ok \in BOOLEAN :
            IF ok THEN Running /\ http' = "listening" /\ mainPc' = "httpServing"
            ELSE Exit(1) /\ mainPc' = "httpFailed" /\ UNCHANGED http
    /\ UNCHANGED <<storeVars, callerVars, logVars, servePc, sigPc, signalVars, grpc,
                   httpShut, drainErr, db, otelVars>>

\* Mutant: gwServer.ListenAndServe() does not return after Shutdown
MainServeBlocks ==
    /\ ~exited /\ mainPc = "httpServing"
    /\ httpShut
    /\ FALSE
    /\ UNCHANGED vars

\* gwServer.ListenAndServe() returns http.ErrServerClosed as soon as
\* Shutdown has been called, and main returns
MainServeReturns ==
    /\ ~exited /\ mainPc = "httpServing"
    /\ httpShut
    /\ mainPc' = "deferMetrics"
    /\ Running
    /\ UNCHANGED <<storeVars, callerVars, logVars, servePc, sigPc, signalVars, serverVars,
                   db, otelVars>>

\* ShutdownOTelMetrics(ctx, mp, timeout): mp.Shutdown, unless mp is nil
ShutdownOTelMetrics ==
    IF mp = "nil" THEN UNCHANGED <<mp, mpShutdowns>>
    ELSE mp' = "shutdown" /\ mpShutdowns' = mpShutdowns + 1

\* ShutdownOTel(ctx, tp, timeout): tp.Shutdown, unless tp is nil
ShutdownOTel ==
    IF tp = "nil" THEN UNCHANGED <<tp, tpShutdowns>>
    ELSE tp' = "shutdown" /\ tpShutdowns' = tpShutdowns + 1

\* The deferred function of main for mp (deferred last, so run first)
MainDeferMetrics ==
    /\ ~exited /\ mainPc = "deferMetrics"
    /\ ShutdownOTelMetrics
    /\ mainPc' = "deferTraces"
    /\ Running
    /\ UNCHANGED <<storeVars, callerVars, logVars, servePc, sigPc, signalVars, serverVars,
                   db, tp, tpShutdowns>>

\* The deferred function of main for tp, after which main has returned and
\* the process exits with status 0
MainDeferTraces ==
    /\ ~exited /\ mainPc = "deferTraces"
    /\ ShutdownOTel
    /\ mainPc' = "returned"
    /\ Exit(0)
    /\ UNCHANGED <<storeVars, callerVars, logVars, servePc, sigPc, signalVars, serverVars,
                   db, mp, mpShutdowns>>

\* grpcServer.Serve(lis) in its goroutine: after GracefulStop it returns
\* ErrServerStopped and the goroutine exits the process with 1
ServeStart ==
    /\ ~exited /\ servePc = "spawned"
    /\ IF grpc = "new" THEN Running /\ grpc' = "serving" /\ servePc' = "serving"
       ELSE Exit(1) /\ UNCHANGED <<grpc, servePc>>
    /\ UNCHANGED <<storeVars, callerVars, logVars, mainPc, sigPc, signalVars, http,
                   httpShut, drainErr, db, otelVars>>

\* Serve returns nil once GracefulStop is done
ServeReturns ==
    /\ ~exited /\ servePc = "serving"
    /\ grpc = "stopped"
    /\ servePc' = "done"
    /\ Running
    /\ UNCHANGED <<storeVars, callerVars, logVars, mainPc, sigPc, signalVars, serverVars,
                   db, otelVars>>

\* The operating system sends SIGINT or SIGTERM: before signal.Notify the
\* default action ends the process, after it the signal waits in signalChan
Signal ==
    /\ ~exited /\ ~signalled
    /\ signalled' = TRUE
    /\ atSignal' = {c \in CallIds : InFlight(c)}
    /\ IF notified THEN Running ELSE Exit(128 + 15)
    /\ UNCHANGED <<storeVars, callerVars, logVars, goVars, notified, serverVars, db, otelVars>>

\* sig := <-signalChan
HandlerReceive ==
    /\ ~exited /\ sigPc = "waiting"
    /\ signalled
    /\ sigPc' = "httpShutdown"
    /\ Running
    /\ UNCHANGED <<storeVars, callerVars, logVars, mainPc, servePc, signalVars, serverVars,
                   db, otelVars>>

\* gwServer.Shutdown(shutdownCtx) begins: the listener is closed
HandlerHttpShutdown ==
    /\ ~exited /\ sigPc = "httpShutdown"
    /\ httpShut' = TRUE
    /\ http' = IF http = "listening" THEN "closed" ELSE http
    /\ sigPc' = "httpDrain"
    /\ Running
    /\ UNCHANGED <<storeVars, callerVars, logVars, mainPc, servePc, signalVars, grpc,
                   drainErr, db, otelVars>>

\* Mutant: the error of gwServer.Shutdown ends the process
HandlerHttpDrainFatal ==
    /\ ~exited /\ sigPc = "httpDrain"
    /\ drainErr' = (\E c \in CallIds : HttpInFlight(c))
    /\ IF drainErr' THEN Exit(1) /\ sigPc' = "drainFailed"
       ELSE Running /\ sigPc' = "gracefulStop"
    /\ UNCHANGED <<storeVars, callerVars, logVars, mainPc, servePc, signalVars, grpc, http,
                   httpShut, db, otelVars>>

\* gwServer.Shutdown returns: nil once no request is in flight, or the error
\* of shutdownCtx when its 10 seconds pass first, which is only logged
HandlerHttpDrain ==
    /\ ~exited /\ sigPc = "httpDrain"
    /\ drainErr' = (\E c \in CallIds : HttpInFlight(c))
    /\ sigPc' = "gracefulStop"
    /\ Running
    /\ UNCHANGED <<storeVars, callerVars, logVars, mainPc, servePc, signalVars, grpc, http,
                   httpShut, db, otelVars>>

\* Mutant: the handler goes on without stopping the gRPC server
HandlerGracefulStopSkipped ==
    /\ ~exited /\ sigPc = "gracefulStop"
    /\ sigPc' = "grpcDrain"
    /\ UNCHANGED <<exitVars, calls>>
    /\ UNCHANGED <<storeVars, callerVars, logVars, mainPc, servePc, signalVars, serverVars,
                   db, otelVars>>

\* grpcServer.GracefulStop() begins: no new call is taken
HandlerGracefulStop ==
    /\ ~exited /\ sigPc = "gracefulStop"
    /\ grpc' = "stopping"
    /\ sigPc' = "grpcDrain"
    /\ Running
    /\ UNCHANGED <<storeVars, callerVars, logVars, mainPc, servePc, signalVars, http,
                   httpShut, drainErr, db, otelVars>>

\* Mutant: the gRPC server is stopped without waiting for the calls in flight
HandlerGrpcDrainNoWait ==
    /\ ~exited /\ sigPc = "grpcDrain"
    /\ grpc' = "stopped"
    /\ sigPc' = "closeDb"
    /\ UNCHANGED <<exitVars, calls>>
    /\ UNCHANGED <<storeVars, callerVars, logVars, mainPc, servePc, signalVars, http,
                   httpShut, drainErr, db, otelVars>>

\* grpcServer.GracefulStop() returns once no RPC is in flight
HandlerGrpcDrain ==
    /\ ~exited /\ sigPc = "grpcDrain"
    /\ \A c \in CallIds : ~RpcInFlight(c)
    /\ grpc' = "stopped"
    /\ sigPc' = "closeDb"
    /\ Running
    /\ UNCHANGED <<storeVars, callerVars, logVars, mainPc, servePc, signalVars, http,
                   httpShut, drainErr, db, otelVars>>

\* err := impl.Close() returns, with an error or without
HandlerCloseDb ==
    /\ ~exited /\ sigPc = "closeDb"
    /\ db' = "closed"
    /\ \E ok \in BOOLEAN :
        sigPc' = IF ok THEN "shutdownTraces" ELSE "closeFailed"
    /\ Running
    /\ UNCHANGED <<storeVars, callerVars, logVars, mainPc, servePc, signalVars, serverVars,
                   otelVars>>

\* if err != nil { slog.Error(...); os.Exit(1) }
HandlerCloseFailed ==
    /\ ~exited /\ sigPc = "closeFailed"
    /\ Exit(1)
    /\ UNCHANGED <<storeVars, callerVars, logVars, goVars, signalVars, serverVars, db,
                   otelVars>>

\* internal.ShutdownOTel(context.Background(), tp, ...): an error is logged
HandlerShutdownTraces ==
    /\ ~exited /\ sigPc = "shutdownTraces"
    /\ ShutdownOTel
    /\ sigPc' = "shutdownMetrics"
    /\ Running
    /\ UNCHANGED <<storeVars, callerVars, logVars, mainPc, servePc, signalVars, serverVars,
                   db, mp, mpShutdowns>>

\* if mp != nil { internal.ShutdownOTelMetrics(...) }, and the goroutine ends
HandlerShutdownMetrics ==
    /\ ~exited /\ sigPc = "shutdownMetrics"
    /\ ShutdownOTelMetrics
    /\ sigPc' = "done"
    /\ Running
    /\ UNCHANGED <<storeVars, callerVars, logVars, mainPc, servePc, signalVars, serverVars,
                   db, tp, tpShutdowns>>

----------------------------------------------------------------------------
(* The logger: TraceContextHandler *)

TraceIds == {"4bf92f35", "0af76519"}
SpanIds == {"00f067aa"}
Messages == {"creating user", "listing users"}

\* The span of context.Background(): trace.SpanFromContext returns a span
\* that is not recording and whose span context is not valid
NoSpan == [recording |-> FALSE, valid |-> FALSE, traceId |-> "", spanId |-> ""]

\* The spans a context of this process carries: none; a recording span of
\* the SDK tracer provider; a span that is not recording although its span
\* context is valid (the span of the no-op tracer provider InitOTel installs
\* when no exporter can be made, which carries the span context of the
\* caller's traceparent, and the span of a trace that is not sampled)
Contexts ==
    {NoSpan}
    \cup [recording : BOOLEAN, valid : {TRUE}, traceId : TraceIds, spanId : SpanIds]

\* trace.SpanFromContext(ctx)
SpanFromContext(ctx) == ctx

\* The records the logger is given: a message and the attributes of the call
Records == [msg : Messages, attrs : {<<>>}]

\* record.AddAttrs(...)
AddAttrs(record, attrs) == [record EXCEPT !.attrs = record.attrs \o attrs]

\* TraceContextHandler.Handle(ctx, record): the records passed to the
\* wrapped handler
Handle(ctx, record) ==
    LET span == SpanFromContext(ctx) IN
    IF span.recording /\ span.valid
    THEN <<AddAttrs(record, <<<<"trace_id", span.traceId>>,
                              <<"span_id", span.spanId>>>>)>>
    ELSE <<record>>

\* slog calls Handle with the context of the caller and a record. A span
\* is recording only under the tracer provider of the SDK: with no exporter
\* InitOTel returns a nil provider and installs the no-op one
Log ==
    /\ ~exited
    /\ Len(logged) < MaxLogs
    /\ \E ctx \in Contexts, record \in Records :
        /\ ctx.recording => tp = "live"
        /\ logged' = Append(logged, [ctx |-> ctx, record |-> record,
                                  handled |-> Handle(ctx, record)])
    /\ UNCHANGED <<storeVars, calls, callerVars, procVars>>

----------------------------------------------------------------------------
(* Specifications *)

NoCalls == [c \in CallIds |-> IdleCall]

\* The service over a migrated, empty database, in a process that serves
Init ==
    /\ schema = LatestVersion
    /\ table = <<>>
    /\ seq = 1
    /\ calls = NoCalls
    /\ ncalls = 0
    /\ budget = MaxCalls
    /\ faults = {"query", "stream", "corrupt"}
    /\ mainPc = "httpServing"
    /\ servePc = "serving"
    /\ sigPc = "waiting"
    /\ notified = TRUE
    /\ signalled = FALSE
    /\ atSignal = {}
    /\ grpc = "serving"
    /\ http = "listening"
    /\ httpShut = FALSE
    /\ drainErr = FALSE
    /\ db = "open"
    /\ tp = "live"
    /\ mp = "live"
    /\ tpShutdowns = 0
    /\ mpShutdowns = 0
    /\ exited = FALSE
    /\ status = 0
    /\ logged = <<>>

\* The calls of the service: CreateUser and ListUsers on the RPC port
Next ==
    \/ ArriveCreateUser("rpc")
    \/ ArriveListUsers("rpc")
    \/ \E c \in CallIds : CompleteCreateUser(c)
    \/ \E c \in CallIds : CompleteListUsers(c)

Spec == Init /\ [][Next]_vars

\* The process from its start, over a database that is new or migrated
InitMain ==
    /\ schema \in 0..LatestVersion
    /\ table = <<>>
    /\ seq = 1
    /\ calls = NoCalls
    /\ ncalls = 0
    /\ budget = MaxMainCalls
    /\ faults \in {{}, {"migrate"}}
    /\ mainPc = "initOTel"
    /\ servePc = "none"
    /\ sigPc = "none"
    /\ notified = FALSE
    /\ signalled = FALSE
    /\ atSignal = {}
    /\ grpc = "new"
    /\ http = "new"
    /\ httpShut = FALSE
    /\ drainErr = FALSE
    /\ db = "none"
    /\ tp = "none"
    /\ mp = "none"
    /\ tpShutdowns = 0
    /\ mpShutdowns = 0
    /\ exited = FALSE
    /\ status = 0
    /\ logged = <<>>

NextMain ==
    \/ MainInitOTel
    \/ MainInitOTelMetrics
    \/ MainRunMigrations
    \/ MainListen
    \/ MainNewService
    \/ MainGateway
    \/ MainNotify
    \/ MainListenAndServe
    \/ MainServeReturns
    \/ MainDeferMetrics
    \/ MainDeferTraces
    \/ ServeStart
    \/ ServeReturns
    \/ Signal
    \/ HandlerReceive
    \/ HandlerHttpShutdown
    \/ HandlerHttpDrain
    \/ HandlerGracefulStop
    \/ HandlerGrpcDrain
    \/ HandlerCloseDb
    \/ HandlerCloseFailed
    \/ HandlerShutdownTraces
    \/ HandlerShutdownMetrics
    \/ \E via \in {"rpc", "http"} : ArriveCreateUserWith(via, MainEmails)
    \/ \E via \in {"rpc", "http"} : ArriveListUsers(via)
    \/ \E c \in CallIds : GatewayCall(c)
    \/ \E c \in CallIds : CompleteCreateUser(c)
    \/ \E c \in CallIds : CompleteListUsers(c)
    \/ \E c \in CallIds : Deliver(c)
    \/ \E c \in CallIds : GatewayDeliver(c)

SpecMain == InitMain /\ [][NextMain]_vars

\* The steps of the main goroutine
MainStep ==
    \/ MainInitOTel
    \/ MainInitOTelMetrics
    \/ MainRunMigrations
    \/ MainListen
    \/ MainNewService
    \/ MainGateway
    \/ MainNotify
    \/ MainListenAndServe
    \/ MainServeReturns
    \/ MainDeferMetrics
    \/ MainDeferTraces

\* The steps of the goroutine of grpcServer.Serve
ServeStep == ServeStart \/ ServeReturns

\* The steps of the signal handler goroutine
HandlerStep ==
    \/ HandlerReceive
    \/ HandlerHttpShutdown
    \/ HandlerHttpDrain
    \/ HandlerGracefulStop
    \/ HandlerGrpcDrain
    \/ HandlerCloseDb
    \/ HandlerCloseFailed
    \/ HandlerShutdownTraces
    \/ HandlerShutdownMetrics

\* The steps of the goroutines that serve the calls in flight
CallStep ==
    \/ \E c \in CallIds : GatewayCall(c)
    \/ \E c \in CallIds : CompleteListUsers(c)
    \/ \E c \in CallIds : Deliver(c)
    \/ \E c \in CallIds : GatewayDeliver(c)

\* The process with callers that make ListUsers calls on either port
NextMainFair ==
    \/ MainStep
    \/ ServeStep
    \/ HandlerStep
    \/ CallStep
    \/ Signal
    \/ \E via \in {"rpc", "http"} : ArriveListUsers(via)

\* The process under the scheduler of the Go runtime, which lets every
\* goroutine that can run take its next step, and with a store that answers
\* every statement, so that every call in flight completes. Whether a signal
\* is sent and whether callers make calls is left open
SpecMainFair ==
    /\ InitMain
    /\ [][NextMainFair]_vars
    /\ WF_vars(MainStep)
    /\ WF_vars(ServeStep)
    /\ WF_vars(HandlerStep)
    /\ WF_vars(CallStep)

\* The service in a process that serves, with callers that may disconnect and
\* a store connection that does not fail
InitCancel ==
    /\ schema = LatestVersion
    /\ table = <<>>
    /\ seq = 1
    /\ calls = NoCalls
    /\ ncalls = 0
    /\ budget = MaxCancelCalls
    /\ faults = {}
    /\ mainPc = "httpServing"
    /\ servePc = "serving"
    /\ sigPc = "waiting"
    /\ notified = TRUE
    /\ signalled = FALSE
    /\ atSignal = {}
    /\ grpc = "serving"
    /\ http = "listening"
    /\ httpShut = FALSE
    /\ drainErr = FALSE
    /\ db = "open"
    /\ tp = "live"
    /\ mp = "live"
    /\ tpShutdowns = 0
    /\ mpShutdowns = 0
    /\ exited = FALSE
    /\ status = 0
    /\ logged = <<>>

NextCancel ==
    \/ ArriveCreateUser("rpc")
    \/ ArriveListUsers("rpc")
    \/ \E c \in CallIds : Disconnect(c)
    \/ \E c \in CallIds : CompleteCreateUser(c)
    \/ \E c \in CallIds : CompleteListUsers(c)

SpecCancel == InitCancel /\ [][NextCancel]_vars

\* The logger of a process that serves
InitLog ==
    /\ schema = LatestVersion
    /\ table = <<>>
    /\ seq = 1
    /\ calls = NoCalls
    /\ ncalls = 0
    /\ budget = 0
    /\ faults = {}
    /\ mainPc = "httpServing"
    /\ servePc = "serving"
    /\ sigPc = "waiting"
    /\ notified = TRUE
    /\ signalled = FALSE
    /\ atSignal = {}
    /\ grpc = "serving"
    /\ http = "listening"
    /\ httpShut = FALSE
    /\ drainErr = FALSE
    /\ db = "open"
    /\ tp \in {"nil", "live"}
    /\ mp = "live"
    /\ tpShutdowns = 0
    /\ mpShutdowns = 0
    /\ exited = FALSE
    /\ status = 0
    /\ logged = <<>>

NextLog == Log

SpecLog == InitLog /\ [][NextLog]_vars

\* The databases a start of the process may find: new (no migration applied),
\* or migrated by an earlier run and holding the rows that run left
StartDatabases ==
    {[schema |-> 0, table |-> <<>>, seq |-> 1],
     [schema |-> LatestVersion, table |-> <<>>, seq |-> 1],
     [schema |-> LatestVersion,
      table |-> <<[id |-> 1, email |-> "a@x", name |-> "Ann"]>>, seq |-> 2]}

\* The process from its start, with no caller
InitStart ==
    /\ \E d \in StartDatabases :
          schema = d.schema /\ table = d.table /\ seq = d.seq
    /\ calls = NoCalls
    /\ ncalls = 0
    /\ budget = 0
    /\ faults \in {{}, {"migrate"}}
    /\ mainPc = "initOTel"
    /\ servePc = "none"
    /\ sigPc = "none"
    /\ notified = FALSE
    /\ signalled = FALSE
    /\ atSignal = {}
    /\ grpc = "new"
    /\ http = "new"
    /\ httpShut = FALSE
    /\ drainErr = FALSE
    /\ db = "none"
    /\ tp = "none"
    /\ mp = "none"
    /\ tpShutdowns = 0
    /\ mpShutdowns = 0
    /\ exited = FALSE
    /\ status = 0
    /\ logged = <<>>

\* The goroutines of the process: main, Serve and the signal handler
NextStart ==
    \/ MainInitOTel
    \/ MainInitOTelMetrics
    \/ MainRunMigrations
    \/ MainListen
    \/ MainNewService
    \/ MainGateway
    \/ MainNotify
    \/ MainListenAndServe
    \/ MainServeReturns
    \/ MainDeferMetrics
    \/ MainDeferTraces
    \/ ServeStart
    \/ ServeReturns
    \/ Signal
    \/ HandlerReceive
    \/ HandlerHttpShutdown
    \/ HandlerHttpDrain
    \/ HandlerGracefulStop
    \/ HandlerGrpcDrain
    \/ HandlerCloseDb
    \/ HandlerCloseFailed
    \/ HandlerShutdownTraces
    \/ HandlerShutdownMetrics

SpecStart == InitStart /\ [][NextStart]_vars

----------------------------------------------------------------------------
(* Properties of the service *)

IsCreate(c) == calls[c].op = "CreateUser" /\ Returned(c)
IsList(c) == calls[c].op = "ListUsers" /\ Returned(c)
Succeeded(c) == calls[c].err = NoError

\* Call l started after call c had returned and its statement ran on the
\* table as the statement of c left it
Follows(l, c) == c \in calls[l].prev /\ calls[l].before = calls[c].after

\* The store delivered to call l the ids the table holds
Faithful(l) == \A i \in 1..Len(calls[l].rows) : calls[l].rows[i].id.kind = "int"

WithId(users, id) == {i \in 1..Len(users) : users[i].id = id}
WithFields(users, email, name) ==
    {i \in 1..Len(users) : users[i].email = email /\ users[i].name = name}

DistinctIds == \A i, j \in 1..Len(table) : table[i].id = table[j].id => i = j

\* C2: stored users have pairwise distinct identifiers; a stored user keeps
\* its identifier (and its place) in every step; the identifier of a new row
\* is none that a stored user has, and none is ever removed
C2_IdsDistinctAndStable ==
    /\ []DistinctIds
    /\ [][/\ Len(table') >= Len(table)
          /\ \A i \in 1..Len(table) : table'[i].id = table[i].id
          /\ \A i \in (Len(table) + 1)..Len(table') : table'[i].id \notin Ids(table)
         ]_vars

\* C2 witness: two users are stored
C2_Witness == Len(table) = 2 /\ \E c \in CallIds : IsList(c)

\* C3: two sequential CreateUser calls with the same email and name, neither
\* hit by a connection failure, both succeed with distinct identifiers, and
\* both rows are stored
C3_DuplicatesAccepted ==
    \A c, d \in CallIds :
        (IsCreate(c) /\ IsCreate(d) /\ c \in calls[d].prev
            /\ calls[c].email = calls[d].email /\ calls[c].name = calls[d].name
            /\ calls[c].fault = "none" /\ calls[d].fault = "none")
        => /\ Succeeded(c) /\ Succeeded(d)
           /\ ~calls[c].resp.isNil /\ ~calls[d].resp.isNil
           /\ calls[c].resp.users[1].id # calls[d].resp.users[1].id
           /\ \A x \in {c, d} :
                \E i \in 1..Len(table) :
                    table[i] = [id |-> calls[x].resp.users[1].id,
                                email |-> calls[x].email, name |-> calls[x].name]

\* C3 witness: two such calls have returned
C3_Witness ==
    \E c, d \in CallIds :
        /\ IsCreate(c) /\ IsCreate(d) /\ c \in calls[d].prev
        /\ calls[c].email = calls[d].email /\ calls[c].name = calls[d].name
        /\ Succeeded(c) /\ Succeeded(d)

\* C4 (its ListUsers half): when the store connection fails during the
\* call, ListUsers returns an error and a nil response, never a partial list
C4_ListUsersFailsOnConnectionFailure ==
    \A l \in CallIds :
        (IsList(l) /\ calls[l].fault # "none")
        => ~Succeeded(l) /\ calls[l].resp.isNil

\* C5: when a row the store returned has an identifier that does not decode
\* as a number, ListUsers returns an error and a nil response
C5_UndecodableIdFails ==
    \A l \in CallIds :
        (IsList(l) /\ \E i \in 1..Len(calls[l].rows) : ~ScanId(calls[l].rows[i].id).ok)
        => ~Succeeded(l) /\ calls[l].resp.isNil

\* C5 witness: the second of two rows did not decode
C5_Witness ==
    \E l \in CallIds :
        /\ IsList(l) /\ Len(calls[l].rows) = 2
        /\ ScanId(calls[l].rows[1].id).ok /\ ~ScanId(calls[l].rows[2].id).ok
        /\ calls[l].err = ScanError

\* C6: ListUsers whose query ran on a table with no rows returns a response
\* that is not nil, with an empty list, and no error
C6_EmptyTableEmptyList ==
    \A l \in CallIds :
        (IsList(l) /\ calls[l].before = <<>> /\ calls[l].fault # "query")
        => /\ Succeeded(l)
           /\ ~calls[l].resp.isNil
           /\ calls[l].resp.users = <<>>

\* C6 witness: ListUsers has returned from an empty table
C6_Witness ==
    \E l \in CallIds :
        IsList(l) /\ calls[l].before = <<>> /\ calls[l].fault = "none" /\ Succeeded(l)

\* C7: a successful CreateUser returns the identifier the store gave the
\* inserted row and the email and name of the request, which are the values
\* stored in that row
C7_CreateUserReturnsStoredRow ==
    \A c \in CallIds :
        (IsCreate(c) /\ Succeeded(c))
        => /\ ~calls[c].resp.isNil
           /\ Len(calls[c].resp.users) = 1
           /\ calls[c].after = Append(calls[c].before, calls[c].resp.users[1])
           /\ calls[c].resp.users[1].email = calls[c].email
           /\ calls[c].resp.users[1].name = calls[c].name

\* C7 witness: a second user was created
C7_Witness ==
    \E c \in CallIds : IsCreate(c) /\ Succeeded(c) /\ Len(calls[c].before) = 1

\* C8: a successful ListUsers returns one user per row of the table, in the
\* order the store delivered the rows, with each row's identifier, email and
\* name
C8_ListUsersReturnsEveryRow ==
    \A l \in CallIds :
        (IsList(l) /\ Succeeded(l))
        => /\ ~calls[l].resp.isNil
           /\ Len(calls[l].resp.users) = Len(calls[l].before)
           /\ \A i \in 1..Len(calls[l].resp.users) :
                /\ calls[l].resp.users[i].id = ScanId(calls[l].rows[i].id).val
                /\ calls[l].resp.users[i].email = calls[l].rows[i].email
                /\ calls[l].resp.users[i].name = calls[l].rows[i].name

\* C19: a call to which QueryContext, row.Err() or Scan returned an error
\* returns that same error and a nil response, and a call returns no error
\* other than the one the store returned to it
C19_StoreErrorsVerbatim ==
    \A c \in CallIds :
        Returned(c)
        => /\ calls[c].storeErr # NoError =>
                calls[c].err = calls[c].storeErr /\ calls[c].resp.isNil
           /\ calls[c].err # NoError => calls[c].err = calls[c].storeErr

\* C19 witness: a ListUsers whose query failed and a ListUsers whose row did
\* not decode have returned, each with the error the store gave it
C19_Witness ==
    \E q, l \in CallIds :
        /\ IsList(q) /\ calls[q].storeErr = ConnError /\ calls[q].err = ConnError
        /\ IsList(l) /\ calls[l].storeErr = ScanError /\ calls[l].err = ScanError
        /\ Len(calls[l].rows) = 1

\* C20: a call whose handler has started has sent exactly one statement to
\* the store, whether it has returned or not and whether it failed or not,
\* and a call sends no statement after its first
C20_OneStatementPerCall ==
    /\ [](\A c \in CallIds :
            /\ calls[c].pc \in {"issued", "returned"} => calls[c].stmts = 1
            /\ calls[c].pc = "idle" => calls[c].stmts = 0)
    /\ [][\A c \in CallIds :
            calls[c].stmts = 1 => calls'[c].stmts = 1]_vars

\* C20 witness: a CreateUser whose statement failed and a ListUsers whose
\* statement succeeded have returned
C20_Witness ==
    \E c, l \in CallIds :
        /\ IsCreate(c) /\ calls[c].fault = "query" /\ ~Succeeded(c)
        /\ IsList(l) /\ calls[l].fault = "none" /\ Succeeded(l)

\* C21: every user that was stored when a successful ListUsers ran is in its
\* list with the identifier, email and name it was stored with, and ListUsers
\* leaves the table as it was
C21_StoredUsersStayListed ==
    \A l \in CallIds :
        (IsList(l) /\ Succeeded(l) /\ Faithful(l))
        => /\ \A i \in 1..Len(calls[l].before) :
                \E j \in 1..Len(calls[l].resp.users) :
                    calls[l].resp.users[j] = calls[l].before[i]
           /\ calls[l].after = calls[l].before

\* Call c is the first CreateUser to succeed: every other CreateUser that
\* succeeded started after c had returned
FirstToSucceed(c) ==
    /\ IsCreate(c) /\ Succeeded(c)
    /\ \A d \in CallIds \ {c} :
          (IsCreate(d) /\ Succeeded(d)) => c \in calls[d].prev

C25_SuccessOnlyAfterEveryRow ==
    \A l \in CallIds :
        (IsList(l) /\ Succeeded(l))
        => Len(calls[l].rows) = Len(calls[l].before)

\* Calls c and d ran concurrently: neither started after the other returned
Concurrent(c, d) == c # d /\ c \notin calls[d].prev /\ d \notin calls[c].prev

\* C28: every successful CreateUser, whatever calls ran concurrently with it,
\* has exactly one row in the table, which holds the identifier it returned
\* and its email and name, and no two successful calls returned the same
\* identifier
C28_ConcurrentCreatesKeepEveryRow ==
    \A c \in CallIds :
        (IsCreate(c) /\ Succeeded(c))
        => /\ Cardinality({i \in 1..Len(table) :
                              table[i].id = calls[c].resp.users[1].id}) = 1
           /\ \E i \in 1..Len(table) :
                 table[i] = [id |-> calls[c].resp.users[1].id,
                             email |-> calls[c].email, name |-> calls[c].name]
           /\ \A d \in CallIds \ {c} :
                 (IsCreate(d) /\ Succeeded(d))
                 => calls[d].resp.users[1].id # calls[c].resp.users[1].id

\* C28 witness: two CreateUser calls that ran concurrently have both succeeded
C28_Witness ==
    \E c, d \in CallIds :
        /\ Concurrent(c, d)
        /\ IsCreate(c) /\ Succeeded(c) /\ IsCreate(d) /\ Succeeded(d)

----------------------------------------------------------------------------
(* Properties of the process *)

\* The signal handler goroutine has called gwServer.Shutdown
ShutdownCalled ==
    {"httpDrain", "gracefulStop", "grpcDrain", "closeDb", "closeFailed",
     "shutdownTraces", "shutdownMetrics", "done"}

\* The signal handler goroutine has called grpcServer.GracefulStop
GracefulStopCalled ==
    {"grpcDrain", "closeDb", "closeFailed", "shutdownTraces", "shutdownMetrics",
     "done"}

\* C9: when the process has exited with status 0 after a termination signal
\* that its handler caught, every CreateUser call that was in flight when
\* the signal came has had its response delivered
C9_InFlightCreateUserDelivered ==
    (exited /\ status = 0 /\ signalled /\ notified)
    => \A c \in atSignal :
          calls[c].op = "CreateUser" => calls[c].pc = "delivered"

\* C10 as stated, with signal receipt taken as late as it can be (the
\* handler has received the signal and has called gwServer.Shutdown): every
\* call that starts after that, on either port, is rejected
C10_NoCallAcceptedAfterSignal ==
    \A c \in CallIds :
        (calls[c].pc # "idle" /\ calls[c].phase \in ShutdownCalled)
        => calls[c].pc = "rejected"

\* C10 as amended: a request on the HTTP port that starts after the handler
\* has called gwServer.Shutdown is rejected; a call on the RPC port that
\* starts after the handler has called grpcServer.GracefulStop is rejected,
\* and no handler of the service is started after that
C10_NoCallAcceptedAfterStop ==
    \A c \in CallIds :
        calls[c].pc # "idle"
        => /\ (calls[c].via = "http" /\ calls[c].phase \in ShutdownCalled)
                => calls[c].pc = "rejected"
           /\ (calls[c].via = "rpc" /\ calls[c].phase \in GracefulStopCalled)
                => calls[c].pc = "rejected"
           /\ calls[c].rpcPhase \notin GracefulStopCalled

\* C10 witness: a call on the RPC port came while GracefulStop was waiting,
\* in a process that had not exited, and was rejected
C10_Witness ==
    \E c \in CallIds :
        /\ calls[c].via = "rpc" /\ calls[c].phase = "grpcDrain"
        /\ calls[c].pc = "rejected"
        /\ ~exited

\* The signal handler goroutine is past impl.Close(), which returned no error
CloseReturnedNil == {"shutdownTraces", "shutdownMetrics", "done"}

\* C11: the steps of the shutdown happen in order, each after the one before
\* it has finished: the gRPC server is stopped only after gwServer.Shutdown
\* has returned, the store connection is closed only after GracefulStop has
\* returned, and a telemetry provider is shut down only after the store
\* connection has been closed
C11_ShutdownStepsInOrder ==
    /\ grpc \in {"stopping", "stopped"} => sigPc \in GracefulStopCalled
    /\ db = "closed" => grpc = "stopped"
    /\ (tp = "shutdown" \/ mp = "shutdown") => db = "closed"

\* C12: no step shuts a telemetry provider down while an RPC call is in
\* flight
C12_TelemetryOutlivesCalls ==
    [][((tp # "shutdown" /\ tp' = "shutdown") \/ (mp # "shutdown" /\ mp' = "shutdown"))
        => \A c \in CallIds : ~RpcInFlight(c)]_vars

\* C13: when the process has exited with status 0 after its handler received
\* a termination signal, the store connection has been closed
C13_StoreClosedBeforeExit ==
    (exited /\ status = 0 /\ sigPc \notin {"none", "waiting"})
    => db = "closed"

\* C14: when impl.Close() has reported an error in the signal handler and the
\* process has exited, its exit status is not 0
C14_CloseErrorExitsNonZero ==
    (exited /\ sigPc = "closeFailed") => status # 0

\* C15: when the handler has stopped both servers and closed the store
\* connection without an error, whatever the telemetry shutdown reports, the
\* process that has exited has exit status 0
C15_CleanDrainExitsZero ==
    (exited /\ sigPc \in CloseReturnedNil) => status = 0

\* C16: when the migrations fail the process exits with a status that is not
\* 0, and in a run whose migrations fail the RPC listener is never opened,
\* the gateway never listens and the store connection of the service is
\* never opened
C16_MigrationFailureIsFatal ==
    /\ mainPc = "migrateFailed" => exited /\ status # 0
    /\ "migrate" \in faults =>
          /\ mainPc \in {"initOTel", "initMetrics", "migrate", "migrateFailed"}
          /\ grpc = "new" /\ servePc = "none"
          /\ http = "new"
          /\ db = "none"

\* C16 witness: the migrations of a new database failed
C16_Witness == mainPc = "migrateFailed" /\ exited /\ schema = 0

\* C17: on a database that can be reached and is at the newest version, the
\* migration step of startup returns no error, startup goes on to open the
\* RPC listener, and the schema version, the users table and its sequence
\* are as they were
C17_CurrentSchemaIsNoOp ==
    [][(mainPc = "migrate" /\ mainPc' # "migrate"
            /\ schema = LatestVersion /\ "migrate" \notin faults)
        => (mainPc' = "listen" /\ ~exited' /\ storeVars' = storeVars)]_vars

\* C17 witness: startup is past the migration step on a database that an
\* earlier run had migrated and left a row in
C17_Witness == mainPc = "listen" /\ ~exited /\ Len(table) = 1

\* C18: when binding the RPC listener fails the process has exited with a
\* status that is not 0 and neither server was started; when binding the
\* gateway listener fails the process has exited with a status that is not 0
\* and the gRPC server takes no call
C18_BothListenersOrExit ==
    /\ mainPc = "listenFailed" =>
          exited /\ status # 0 /\ grpc = "new" /\ http = "new"
    /\ mainPc = "httpFailed" =>
          exited /\ status # 0 /\ ~GrpcAccepting /\ http = "new"

\* C18 witness: the gateway failed to bind while the gRPC server was serving
C18_Witness == mainPc = "httpFailed" /\ servePc = "serving" /\ grpc = "serving"

\* The attributes of record r under the key
Field(r, key) == {r.attrs[i][2] : i \in {j \in 1..Len(r.attrs) : r.attrs[j][1] = key}}

\* C24 as stated: Handle passes every record to the wrapped handler exactly
\* once; the record passed has trace_id and span_id of the span when the
\* span is recording and its span context is valid, and is the record given
\* otherwise; every record logged in a context that carries a valid span
\* context (a request within a trace) has both fields
C24_LogsInTraceCarryIds ==
    \A i \in 1..Len(logged) :
        LET l == logged[i] IN
        /\ Len(l.handled) = 1
        /\ l.handled[1].msg = l.record.msg
        /\ (l.ctx.recording /\ l.ctx.valid)
            => /\ Field(l.handled[1], "trace_id") = {l.ctx.traceId}
               /\ Field(l.handled[1], "span_id") = {l.ctx.spanId}
        /\ ~(l.ctx.recording /\ l.ctx.valid) => l.handled[1] = l.record
        /\ l.ctx.valid
            => /\ Field(l.handled[1], "trace_id") # {}
               /\ Field(l.handled[1], "span_id") # {}

\* The steps of the signal handler after gwServer.Shutdown has returned
AfterHttpDrain ==
    {"gracefulStop", "grpcDrain", "closeDb", "closeFailed", "shutdownTraces",
     "shutdownMetrics", "done"}

\* C26: the wait of gwServer.Shutdown ends, with the error of its timeout
\* when HTTP requests are still open and without it otherwise, and in both
\* cases the signal handler goes on to grpcServer.GracefulStop() in a process
\* that this step has not ended; a drain that timed out is followed by the
\* same steps in the same order as one that did not (GracefulStop, Close,
\* then the shutdown of the trace provider and of the meter provider)
C26_DrainTimeoutIsOnlyLogged ==
    [][/\ (sigPc = "httpDrain" /\ sigPc' # sigPc)
            => (sigPc' = "gracefulStop" /\ exited' = exited)
       /\ (drainErr /\ sigPc' # sigPc)
            => /\ sigPc \in AfterHttpDrain /\ sigPc' \in AfterHttpDrain
               /\ sigPc = "gracefulStop" => sigPc' = "grpcDrain"
               /\ sigPc = "grpcDrain" => sigPc' = "closeDb" /\ grpc' = "stopped"
               /\ sigPc = "closeDb" => sigPc' \in {"shutdownTraces", "closeFailed"}
                                        /\ db' = "closed"
               /\ sigPc = "shutdownTraces" => sigPc' = "shutdownMetrics"
               /\ sigPc = "shutdownMetrics" => sigPc' = "done"]_vars

\* C26 witness: the drain of the HTTP server timed out and the signal handler
\* went through the rest of its sequence
C26_Witness ==
    /\ drainErr /\ sigPc = "done"
    /\ grpc = "stopped" /\ db = "closed"
    /\ tpShutdowns + mpShutdowns > 0

\* The lifecycle state of the process. Stopped: the process has exited.
\* Draining: the signal handler has received the signal. Serving: main is in
\* gwServer.ListenAndServe and the handler waits for a signal. Starting:
\* before that
Stopped == exited
Draining == ~exited /\ sigPc \notin {"none", "waiting"}
Serving == ~exited /\ ~Draining /\ mainPc = "httpServing"
Starting == ~exited /\ ~Draining /\ ~Serving

\* The place of the lifecycle state in Starting, Serving, Draining, Stopped
Rank == IF Stopped THEN 3 ELSE IF Draining THEN 2 ELSE IF Serving THEN 1 ELSE 0

\* C27: the lifecycle state never moves back in the order Starting, Serving,
\* Draining, Stopped, and when the termination signal has been sent to a
\* process that is Serving, the process eventually is Stopped, every
\* goroutine being scheduled and every call in flight completing
C27_LifecycleForwardToStopped ==
    /\ [][Rank' >= Rank]_vars
    /\ (Serving /\ signalled) ~> Stopped

\* C27 witness: the process has gone through Serving and Draining and is
\* Stopped by main returning after the signal
C27_Witness ==
    /\ Stopped /\ status = 0
    /\ signalled /\ httpShut
    /\ http = "closed"
    /\ mainPc = "returned"

\* C29: no handler of CreateUser or ListUsers meets a closed store: none
\* returns the error of a closed connection, and once the store is closed
\* the gRPC server is stopped and no RPC is in flight
C29_NoStatementAfterClose ==
    /\ \A c \in CallIds : calls[c].err # ClosedError /\ calls[c].storeErr # ClosedError
    /\ db = "closed" => /\ grpc = "stopped"
                        /\ \A c \in CallIds : ~RpcInFlight(c)

\* C29 witness: the store was closed after a call that was in flight when
\* the signal came had its answer delivered
C29_Witness ==
    /\ db = "closed"
    /\ \E c \in atSignal : calls[c].pc = "delivered" /\ calls[c].stmts = 1

\* C30 as stated: in one run of the process the trace provider is shut down
\* at most once and the meter provider is shut down at most once
C30_ProvidersShutDownOnce ==
    tpShutdowns <= 1 /\ mpShutdowns <= 1

============================================================================
